---------------------------- MODULE Spec2Model ----------------------------
(***************************************************************************)
(* Network Cell Analyzer backend (src/app.py).                             *)
(*                                                                         *)
(* Two tables in one SQLite file (app.py:20): cell_data (CellData, the     *)
(* samples) and device_log (DeviceLog, the presence rows).  Request        *)
(* handlers run in concurrent threads, each with its own session and       *)
(* connection.  What the model takes from the storage engine:              *)
(*   - a SELECT outside a write transaction reads the committed tables     *)
(*     at the moment it runs (the driver opens no transaction for reads),  *)
(*     so the reads of one query handler are separate atomic steps;        *)
(*   - the session autoflushes pending inserts before a query, so the      *)
(*     INSERT of the sample is sent by line 160, before the SELECT of the  *)
(*     presence row; the INSERT takes the database's single write lock,    *)
(*     held until the transaction ends; a second writer waits for it, and  *)
(*     when the wait outlasts the driver's busy timeout its INSERT raises  *)
(*     OperationalError("database is locked");                             *)
(*   - COMMIT publishes all of a transaction's writes at once; it waits    *)
(*     for the read statements that are open and raises the same error     *)
(*     when that wait outlasts the busy timeout.                           *)
(*     The write itself is one step, so no SELECT waits for a COMMIT.      *)
(* Time is counted in hours.  A timestamp text names a local wall-clock    *)
(* hour h, counted from 22:00 on 26 Oct 2024 in Asia/Beirut, the night     *)
(* daylight saving time ends; instants are UTC hours on the same scale.    *)
(* Percentages and averages are computed in binary floating point, as the  *)
(* code does, and the rounded results are integers in hundredths.          *)
(***************************************************************************)
EXTENDS Integers, Sequences, FiniteSets, TLC

VARIABLES
    cell_data,    \* committed rows of table cell_data, in rowid order
    device_log,   \* committed rows of table device_log, in rowid order
    writer,       \* the worker whose transaction holds the write lock, or "none"
    clock,        \* the calls of datetime.utcnow() so far; the n-th returns n
    ipc,          \* ingestion worker -> position in receive_data
    ireq,         \* ingestion worker -> the request being handled
    iloc,         \* ingestion worker -> locals of receive_data
    iresp,        \* ingestion worker -> the response returned
    nIngest,      \* ingestion requests received so far
    qpc,          \* position of the query worker in its handler
    qreq,         \* the query being handled
    qloc,         \* locals of the query handler
    qresp,        \* the response of the query handler
    aggRows,      \* aggregator on its own: the selected rows
    aggOut        \* aggregator on its own: the payload computed from aggRows

vars == <<cell_data, device_log, writer, clock, ipc, ireq, iloc, iresp, nIngest,
          qpc, qreq, qloc, qresp, aggRows, aggOut>>

storeVars == <<cell_data, device_log, writer, clock>>
ingestVars == <<ipc, ireq, iloc, iresp, nIngest>>
queryVars == <<qpc, qreq, qloc, qresp>>
aggVars == <<aggRows, aggOut>>

---------------------------------------------------------------------------
(* Bounds of the model *)

MaxIngest == 2
MaxHour == 1
MaxRows == 31

(* Asia/Beirut (app.py:23): UTC+3 in summer, UTC+2 in winter; the hour     *)
(* 23:00 of 26 Oct 2024 (h = 1) occurs twice and localize() takes it as    *)
(* winter time.                                                            *)
SummerOffset == 3
WinterOffset == 2
DstEndHour == 1

Workers == {"w1", "w2"}
DeviceIds == {"", "a", "b"}
Hours == 0..MaxHour

---------------------------------------------------------------------------
(* Time Normalizer *)

\* A timestamp text: well formed and naming local hour h, or malformed.
Text(h) == [given |-> TRUE, ok |-> TRUE, hour |-> h]
BadText == [given |-> TRUE, ok |-> FALSE, hour |-> 0]
NoArg == [given |-> FALSE, ok |-> FALSE, hour |-> 0]

\* lebanon_tz.localize(naive).astimezone(pytz.utc), in hours.
UtcOffset(h) == IF h < DstEndHour THEN SummerOffset ELSE WinterOffset
ToUtc(h) == h - UtcOffset(h)

\* A datetime value: `aware` tells whether it carries a timezone.  Values read
\* back from a DateTime column are naive; `null` is SQL NULL / Python None.
Instant(t, aware) == [null |-> FALSE, t |-> t, aware |-> aware]
None == [null |-> TRUE, t |-> 0, aware |-> FALSE]

\* strptime(text, "%d %b %Y %I:%M %p") raises ValueError on malformed text.
ParseFails(text) == text.given /\ ~text.ok

\* _to_utc / to_utc: the default when the text is absent, else the parsed,
\* timezone-aware UTC instant.
to_utc(text, default) ==
    IF ~text.given THEN default ELSE Instant(ToUtc(text.hour), TRUE)

\* `a < b` on datetimes raises TypeError when exactly one is timezone-aware.
CompareRaises(a, b) == a.aware # b.aware

---------------------------------------------------------------------------
(* Aggregator *)

Abs(x) == IF x < 0 THEN 0 - x ELSE x

(* Python floats are IEEE 754 binary64: a sign, a 53-bit mantissa and a     *)
(* power of two.  The mantissa is kept as a little-endian sequence of      *)
(* 13-bit limbs (the top limb holds what is left), so that every step of   *)
(* the arithmetic stays well inside the integers of the checker.  The      *)
(* operators are exact for quotients n/d with n, d < 2^17 and values       *)
(* below 2000 in magnitude.                                                *)
MantissaBits == 53
LimbBits == 13
Limb == 2^LimbBits

\* The float 0.0.
Zero == [sign |-> 1, m |-> <<>>, e |-> 0]

RECURSIVE BitLength(_)
BitLength(t) == IF t = 0 THEN 0 ELSE 1 + BitLength(t \div 2)

RECURSIVE ToInt(_)
ToInt(m) == IF m = <<>> THEN 0 ELSE Head(m) + Limb * ToInt(Tail(m))

\* m + 1
RECURSIVE AddOne(_)
AddOne(m) ==
    IF Len(m) = 1 \/ Head(m) + 1 < Limb THEN <<Head(m) + 1>> \o Tail(m)
    ELSE <<0>> \o AddOne(Tail(m))

\* m * c + carry, for a small factor c
RECURSIVE MulSmall(_, _, _)
MulSmall(m, c, carry) ==
    IF Len(m) = 1 THEN <<Head(m) * c + carry>>
    ELSE LET p == Head(m) * c + carry
         IN  <<p % Limb>> \o MulSmall(Tail(m), c, p \div Limb)

\* The limb that holds bit i of m, and the position of the bit inside it.
LimbOf(m, i) == IF i \div LimbBits + 1 < Len(m) THEN i \div LimbBits + 1 ELSE Len(m)
OffsetOf(m, i) == i - LimbBits * (LimbOf(m, i) - 1)

\* floor(m / 2^f), a small integer
ShiftRight(m, f) ==
    IF OffsetOf(m, f) > 30 THEN 0
    ELSE ToInt(SubSeq(m, LimbOf(m, f), Len(m))) \div 2^OffsetOf(m, f)

\* Bit i of m, and whether all the bits below bit i are zero.
Bit(m, i) ==
    IF OffsetOf(m, i) > 30 THEN 0
    ELSE (m[LimbOf(m, i)] \div 2^OffsetOf(m, i)) % 2
ZeroBelow(m, i) ==
    /\ \A j \in 1..(LimbOf(m, i) - 1) : m[j] = 0
    /\ IF OffsetOf(m, i) > 30 THEN FALSE
       ELSE m[LimbOf(m, i)] % 2^OffsetOf(m, i) = 0

\* m / 2^f rounded to the nearest integer, ties to even: is it rounded up?
RoundsUp(m, f) ==
    /\ f > 0
    /\ Bit(m, f - 1) = 1
    /\ ~ZeroBelow(m, f - 1) \/ Bit(m, f) = 1

\* n/d = (n'/d') * 2^k with 1 <= n'/d' < 2
RECURSIVE Normalize(_, _, _)
Normalize(n, d, k) ==
    IF n >= 2 * d THEN Normalize(n, 2 * d, k + 1)
    ELSE IF n < d THEN Normalize(2 * n, d, k - 1)
    ELSE [n |-> n, d |-> d, k |-> k]

\* The next `count` limbs of the binary expansion of r/d (r < d), and the
\* remainder left after them.
RECURSIVE Digits(_, _, _)
Digits(r, d, count) ==
    IF count = 0 THEN [m |-> <<>>, r |-> r]
    ELSE LET rest == Digits((r * Limb) % d, d, count - 1)
         IN  [m |-> Append(rest.m, (r * Limb) \div d), r |-> rest.r]

\* n / d on integers (d > 0): the float nearest to the quotient, ties to even.
TrueDiv(n, d) ==
    IF n = 0 THEN Zero
    ELSE LET nd == Normalize(Abs(n), d, 0)
             x == Digits(nd.n - nd.d, nd.d, (MantissaBits - 1) \div LimbBits)
             M == Append(x.m, 1)
             up == \/ 2 * x.r > nd.d
                   \/ 2 * x.r = nd.d /\ M[1] % 2 = 1
         IN  [sign |-> IF n < 0 THEN -1 ELSE 1,
              m |-> IF up THEN AddOne(M) ELSE M,
              e |-> nd.k - (MantissaBits - 1)]

\* x * 100 on floats: the exact product rounded to 53 bits, ties to even.
Times100(x) ==
    IF x.m = <<>> THEN x
    ELSE LET p == MulSmall(x.m, 100, 0)
             s == BitLength(p[Len(p)]) - 1
             q == [i \in 1..Len(p) |->
                      IF i < Len(p)
                      THEN p[i] \div 2^s + (p[i + 1] % 2^s) * 2^(LimbBits - s)
                      ELSE p[i] \div 2^s]
         IN  [sign |-> x.sign,
              m |-> IF RoundsUp(p, s) THEN AddOne(q) ELSE q,
              e |-> x.e + s]

\* Mutant of Round2: the digits after the second decimal are cut off.
Round2Down(x) ==
    IF x.m = <<>> THEN 0
    ELSE x.sign * ShiftRight(MulSmall(x.m, 100, 0), 0 - x.e)

\* round(x, 2) on a float, as an integer number of hundredths: the exact
\* binary value of x rounded to two decimals, ties to even.
Round2(x) ==
    IF x.m = <<>> THEN 0
    ELSE LET w == MulSmall(x.m, 100, 0)
             f == 0 - x.e
         IN  x.sign * (ShiftRight(w, f) + IF RoundsUp(w, f) THEN 1 ELSE 0)

RECURSIVE SumSeq(_)
SumSeq(s) == IF s = <<>> THEN 0 ELSE Head(s) + SumSeq(Tail(s))

\* The column `col` of the rows, in row order.
Column(rows, col) == [i \in 1..Len(rows) |-> rows[i][col]]

\* f"{round(v/total*100,2)}%": the rounded share and the literal "%".
Percent(v, total) == <<Round2(Times100(TrueDiv(v, total))), "%">>

\* round(sum(v)/len(v), 2)
Mean2(v) == Round2(TrueDiv(SumSeq(v), Len(v)))

Operators(rows) == {rows[i].operator : i \in 1..Len(rows)}
NetworkTypes(rows) == {rows[i].network_type : i \in 1..Len(rows)}

\* The loop of lines 86-91 / 213-218 and the payload of lines 93-99 / 220-236.
aggregate(rows) ==
    LET total == Len(rows)
        ofOp(k) == SelectSeq(rows, LAMBDA r : r.operator = k)
        ofNet(k) == SelectSeq(rows, LAMBDA r : r.network_type = k)
        op_cnt == [k \in Operators(rows) |-> Len(ofOp(k))]
        net_cnt == [k \in NetworkTypes(rows) |-> Len(ofNet(k))]
        sig_net == [k \in NetworkTypes(rows) |-> Column(ofNet(k), "signal_power")]
        snr_net == [k \in NetworkTypes(rows) |-> Column(ofNet(k), "snr")]
        sig_dev == Column(rows, "signal_power")
    IN  [connectivity_per_operator |->
             [k \in DOMAIN op_cnt |-> Percent(op_cnt[k], total)],
         connectivity_per_network_type |->
             [k \in DOMAIN net_cnt |-> Percent(net_cnt[k], total)],
         avg_signal_per_network_type |->
             [k \in DOMAIN sig_net |-> Mean2(sig_net[k])],
         avg_snr_per_network_type |->
             [k \in DOMAIN snr_net |-> Mean2(snr_net[k])],
         avg_signal_device |-> Mean2(sig_dev)]

---------------------------------------------------------------------------
(* Request inputs *)

\* A JSON value handed to int() / float(): a number, or text that is none.
Num(v) == [num |-> TRUE, val |-> v]
NotNum == [num |-> FALSE, val |-> 0]

\* The two readings of the scenario of spec section 8: carrier 1 on LTE in
\* the first hour, carrier 2 on 5G later.
ReadingAt(h) == IF h = 0 THEN 1 ELSE 2
ReadingSignal(i) == IF i = 1 THEN -80 ELSE -60
ReadingSnr(i) == IF i = 1 THEN 10 ELSE 20
ReadingNet(i) == IF i = 1 THEN "LTE" ELSE "5G"

\* The JSON body of POST /receive-data; the keys in `absent` are not sent.
Body(d, h) ==
    LET i == ReadingAt(h)
    IN  [absent |-> {}, device_id |-> d, operator |-> i,
         signal_power |-> Num(ReadingSignal(i)), snr |-> Num(ReadingSnr(i)),
         network_type |-> ReadingNet(i), band |-> "B3", cell_id |-> "c1",
         timestamp |-> Text(h)]

GoodBodies == {Body(d, h) : d \in DeviceIds, h \in Hours}

OddBodies ==
    LET b == Body("a", 0)
    IN  {[b EXCEPT !.absent = {"cell_id"}],
         [b EXCEPT !.absent = {"snr", "band"}],
         [b EXCEPT !.signal_power = NotNum],
         [b EXCEPT !.timestamp = BadText],
         [b EXCEPT !.snr = NotNum]}

\* The connection of a request: the X-Forwarded-For list and the peer address.
Direct == [xff |-> <<>>, remote_addr |-> "o"]
Proxied == [xff |-> <<"a", "o">>, remote_addr |-> "o"]

\* The ingestion requests: every well-formed body over either connection, the
\* others over the direct one.
Posts ==
    {[body |-> b, conn |-> c] : b \in GoodBodies, c \in {Direct, Proxied}}
    \cup {[body |-> b, conn |-> Direct] : b \in OddBodies}

\* The (start, end) arguments of a query: every pair of well-formed texts,
\* none, one malformed, and one given without the other.
Windows ==
    {<<Text(h1), Text(h2)>> : h1 \in Hours, h2 \in Hours}
    \cup {<<NoArg, NoArg>>, <<BadText, NoArg>>, <<NoArg, BadText>>,
          <<Text(0), NoArg>>}
StatsKeys == {"", "a"}
PageKeys == {"a", "o", "global"}

NoResp == [code |-> 0, msg |-> <<"", "">>]
Resp(code, kind, detail) == [code |-> code, msg |-> <<kind, detail>>]

---------------------------------------------------------------------------
(* Sample Store and Device Presence Tracker *)

\* db.func.min / db.func.max of CellData.timestamp: NULL on the empty table,
\* else a naive datetime.
MinTs(rows) ==
    IF rows = <<>> THEN None
    ELSE Instant(CHOOSE t \in {rows[i].timestamp : i \in 1..Len(rows)} :
                   \A i \in 1..Len(rows) : t <= rows[i].timestamp, FALSE)
MaxTs(rows) ==
    IF rows = <<>> THEN None
    ELSE Instant(CHOOSE t \in {rows[i].timestamp : i \in 1..Len(rows)} :
                   \A i \in 1..Len(rows) : t >= rows[i].timestamp, FALSE)

\* Mutant of Between: the bounds themselves are left out.
BetweenExclusive(t, s, e) == s < t /\ t < e

\* CellData.timestamp.between(s, e): inclusive at both ends.
Between(t, s, e) == s <= t /\ t <= e

\* CellData.query.filter_by(device_id=d).filter(timestamp.between(s, e)).all()
RowsOfDevice(rows, d, s, e) ==
    SelectSeq(rows, LAMBDA r : r.device_id = d /\ Between(r.timestamp, s.t, e.t))

\* The rows the global averages are taken over (lines 111-113, 261-267).
RowsInWindow(rows, s, e) ==
    SelectSeq(rows, LAMBDA r : Between(r.timestamp, s.t, e.t))

\* CellData.query.filter_by(device_id=key).first() finds a row (line 311).
HasSampleOf(rows, key) == \E i \in 1..Len(rows) : rows[i].device_id = key

\* DeviceLog.query.filter_by(ip_address=ip).first(): the index of the first
\* row of that address, 0 when there is none (lines 160, 318).
FindLog(log, ip) ==
    IF \E i \in 1..Len(log) : log[i].ip_address = ip
    THEN CHOOSE i \in 1..Len(log) :
           /\ log[i].ip_address = ip
           /\ \A j \in 1..Len(log) : log[j].ip_address = ip => i <= j
    ELSE 0

\* CellData.query.order_by(CellData.timestamp.desc()).first(): the device ids
\* of the rows with the greatest timestamp; which of several the engine
\* returns is not fixed by the query (line 324).
MostRecentDevices(rows) ==
    {rows[i].device_id : i \in {j \in 1..Len(rows) :
                                   rows[j].timestamp = MaxTs(rows).t}}

\* The unique constraint on DeviceLog.ip_address (line 41).
UniqueViolation(log, ip) == \E i \in 1..Len(log) : log[i].ip_address = ip

---------------------------------------------------------------------------
(* POST /receive-data *)

\* request.headers.get("X-Forwarded-For", request.remote_addr).split(",")[0]
client_ip(conn) == IF conn.xff # <<>> THEN Head(conn.xff) ELSE conn.remote_addr

\* Lines 131-142: the first conversion that raises, in evaluation order.
ConvertError(b) ==
    IF "device_id" \in b.absent THEN <<"Missing field", "device_id">>
    ELSE IF "operator" \in b.absent THEN <<"Missing field", "operator">>
    ELSE IF "signal_power" \in b.absent THEN <<"Missing field", "signal_power">>
    ELSE IF ~b.signal_power.num THEN <<"ValueError", "signal_power">>
    ELSE IF "network_type" \in b.absent THEN <<"Missing field", "network_type">>
    ELSE IF "cell_id" \in b.absent THEN <<"Missing field", "cell_id">>
    ELSE IF "timestamp" \in b.absent THEN <<"Missing field", "timestamp">>
    ELSE IF ParseFails(b.timestamp) THEN <<"ValueError", "timestamp">>
    ELSE IF "snr" \notin b.absent /\ ~b.snr.num THEN <<"ValueError", "snr">>
    ELSE <<"ok", "">>

\* The CellData object of lines 145-154, with the rowid the INSERT gives it.
NewSample(b, id) ==
    [id |-> id, device_id |-> b.device_id, operator |-> b.operator,
     signal_power |-> b.signal_power.val,
     snr |-> IF "snr" \in b.absent THEN 0 ELSE b.snr.val,
     network_type |-> b.network_type,
     band |-> IF "band" \in b.absent THEN "N/A" ELSE b.band,
     cell_id |-> b.cell_id,
     timestamp |-> ToUtc(b.timestamp.hour)]

\* Mutant of TouchRow: the device id of the row is not updated.
TouchRowSeenOnly(row, device_id, now) == [row EXCEPT !.last_seen = now]

\* Lines 162-163: the presence row found is updated in place.
TouchRow(row, device_id, now) ==
    [row EXCEPT !.last_seen = now, !.device_id = device_id]

\* Mutant of NewLog: the address is stored as the device id.
NewLogIpAsDevice(log, ip, device_id, now) ==
    [id |-> Len(log) + 1, ip_address |-> ip, device_id |-> ip, last_seen |-> now]

\* Line 165: the presence row of a first contact.
NewLog(log, ip, device_id, now) ==
    [id |-> Len(log) + 1, ip_address |-> ip, device_id |-> device_id,
     last_seen |-> now]

\* Mutant of LogAfterCommit: the presence write is not part of the commit.
LogAfterCommitLost(log, dev, ip, device_id, now) == log

\* Lines 161-165 as COMMIT stores them: the row found (at index dev) updated in
\* place, or a new row appended.
LogAfterCommit(log, dev, ip, device_id, now) ==
    IF dev # 0
    THEN [log EXCEPT ![dev] = TouchRow(log[dev], device_id, now)]
    ELSE Append(log, NewLog(log, ip, device_id, now))

\* The INSERT flushed by line 160 needs the write lock of the database file.
CanWrite(w) == writer = "none"

\* A query handler is at one of its SELECTs: the statement may be open.
ReadOpen == qpc \notin {"idle", "done"}

\* sqlite3.OperationalError, caught at line 172.
Locked == Resp(400, "OperationalError", "database is locked")

\* Lines 129-159: read and convert the body (400 when a conversion raises),
\* add the sample to the session, take the client address and the time.
IngestReceive(w, body, conn) ==
    /\ ipc[w] \in {"idle", "done"}
    /\ nIngest < MaxIngest
    /\ nIngest' = nIngest + 1
    /\ ireq' = [ireq EXCEPT ![w] = [body |-> body, conn |-> conn]]
    /\ IF ConvertError(body)[1] # "ok"
       THEN /\ iresp' = [iresp EXCEPT ![w] =
                           Resp(400, ConvertError(body)[1], ConvertError(body)[2])]
            /\ ipc' = [ipc EXCEPT ![w] = "done"]
            /\ iloc' = [iloc EXCEPT ![w] =
                          [ip |-> "", now |-> 0, sid |-> 0, dev |-> 0]]
            /\ clock' = clock
       ELSE /\ clock' = clock + 1
            /\ iloc' = [iloc EXCEPT ![w] =
                          [ip |-> client_ip(conn), now |-> clock + 1,
                           sid |-> 0, dev |-> 0]]
            /\ iresp' = [iresp EXCEPT ![w] = NoResp]
            /\ ipc' = [ipc EXCEPT ![w] = "added"]
    /\ UNCHANGED <<cell_data, device_log, writer, queryVars, aggVars>>

\* Line 160: autoflush sends the INSERT of the sample (taking the write lock),
\* then the presence row of the client address is looked up.  While another
\* transaction holds the lock the INSERT waits; the step taken then is the
\* end of the busy timeout: the INSERT raises, the request is answered 400
\* (line 172-173) and nothing of it is stored.
IngestLookup(w) ==
    /\ ipc[w] = "added"
    /\ IF CanWrite(w)
       THEN /\ writer' = w
            /\ iloc' = [iloc EXCEPT ![w].sid = Len(cell_data) + 1,
                                    ![w].dev = FindLog(device_log, iloc[w].ip)]
            /\ ipc' = [ipc EXCEPT ![w] = "looked"]
            /\ iresp' = iresp
       ELSE /\ iresp' = [iresp EXCEPT ![w] = Locked]
            /\ ipc' = [ipc EXCEPT ![w] = "done"]
            /\ UNCHANGED <<writer, iloc>>
    /\ UNCHANGED <<cell_data, device_log, clock, ireq, nIngest,
                   queryVars, aggVars>>

\* Lines 161-173: update the row found or insert a new one, commit, answer
\* 201; an exception (the unique constraint, or the busy timeout of a COMMIT
\* that waits for an open read statement) is answered 400 and the
\* transaction is rolled back when the request ends.
IngestCommit(w) ==
    /\ ipc[w] = "looked"
    /\ LET b == ireq[w].body
           l == iloc[w]
       IN  \/ /\ ReadOpen
              /\ UNCHANGED <<cell_data, device_log>>
              /\ iresp' = [iresp EXCEPT ![w] = Locked]
           \/ IF l.dev = 0 /\ UniqueViolation(device_log, l.ip)
              THEN /\ UNCHANGED <<cell_data, device_log>>
                   /\ iresp' = [iresp EXCEPT ![w] =
                                  Resp(400, "IntegrityError", "ip_address")]
              ELSE /\ cell_data' = Append(cell_data, NewSample(b, l.sid))
                   /\ device_log' = LogAfterCommit(device_log, l.dev, l.ip,
                                                   b.device_id, l.now)
                   /\ iresp' = [iresp EXCEPT ![w] =
                                  Resp(201, "Data received", "")]
    /\ writer' = "none"
    /\ ipc' = [ipc EXCEPT ![w] = "done"]
    /\ UNCHANGED <<clock, ireq, iloc, nIngest, queryVars, aggVars>>

---------------------------------------------------------------------------
(* GET /get-stats, GET /get-stats/avg-all, GET /device-stats *)

NoStats == <<>>
QResp(code, kind, detail, stats) ==
    [code |-> code, msg |-> <<kind, detail>>, stats |-> stats]
NoQResp == QResp(0, "", "", NoStats)

NoLocals ==
    [target |-> "", via |-> "", first |-> None, last |-> None,
     s |-> None, e |-> None, len0 |-> 0]

NoQuery == [kind |-> "", key |-> "", start |-> NoArg, end |-> NoArg]

\* The query asks for the averages over all devices.
IsGlobal(q) ==
    q.kind = "avg_all" \/ (q.kind = "device_stats" /\ q.key = "global")

\* An exception in a handler: the two routes answer 400 with its text (lines
\* 238-239, 279-280); /device-stats has no handler and the server answers 500.
Raised(q, exc) ==
    IF q.kind = "device_stats" THEN QResp(500, exc, "", NoStats)
    ELSE QResp(400, "error", exc, NoStats)

\* "No data" of an empty store (lines 74, 105, 188, 249).
EmptyStore == QResp(404, "message", "No data", NoStats)

\* "No data" of an empty selection (lines 83, 207).
EmptySelection(q) ==
    IF q.kind = "get_stats" THEN QResp(404, "message", "No data for device", NoStats)
    ELSE QResp(404, "message", "No data", NoStats)

\* Mutant of avg_all_result: no row in the window is answered as no data.
avg_all_result_nodata(rows) ==
    IF rows = <<>> THEN QResp(404, "message", "No data", <<>>)
    ELSE QResp(200, "", "",
               [avg_signal_all_devices |-> 0, avg_snr_all_devices |-> 0])

\* Lines 111-117, 261-277: the averages over the window; avg() of no row is
\* NULL, which `or 0` turns into 0.
avg_all_result(rows) ==
    QResp(200, "", "",
          [avg_signal_all_devices |->
               IF rows = <<>> THEN 0 ELSE Mean2(Column(rows, "signal_power")),
           avg_snr_all_devices |->
               IF rows = <<>> THEN 0 ELSE Mean2(Column(rows, "snr"))])

\* Lines 82-99, 206-236: 404 on no row, else the aggregated payload.
stats_result(q, rows) ==
    IF rows = <<>> THEN EmptySelection(q)
    ELSE QResp(200, "", "", aggregate(rows))

\* Lines 179-181: /get-stats needs a device_id ("" stands for none given too).
GetStatsBegin(key, s, e) ==
    /\ qpc = "idle"
    /\ qreq' = [kind |-> "get_stats", key |-> key, start |-> s, end |-> e]
    /\ qloc' = [NoLocals EXCEPT !.target = key, !.len0 = Len(cell_data)]
    /\ IF key = ""
       THEN /\ qresp' = QResp(400, "error", "device_id is required", NoStats)
            /\ qpc' = "done"
       ELSE /\ qresp' = NoQResp
            /\ qpc' = "first"
    /\ UNCHANGED <<storeVars, ingestVars, aggVars>>

\* Line 245: /get-stats/avg-all takes only the window.
AvgAllBegin(s, e) ==
    /\ qpc = "idle"
    /\ qreq' = [kind |-> "avg_all", key |-> "global", start |-> s, end |-> e]
    /\ qloc' = [NoLocals EXCEPT !.len0 = Len(cell_data)]
    /\ qresp' = NoQResp
    /\ qpc' = "first"
    /\ UNCHANGED <<storeVars, ingestVars, aggVars>>

\* Lines 302-309: /device-stats; the key "global" goes to avg_all_inner.
DeviceStatsBegin(key, s, e) ==
    /\ qpc = "idle"
    /\ qreq' = [kind |-> "device_stats", key |-> key, start |-> s, end |-> e]
    /\ qloc' = [NoLocals EXCEPT !.len0 = Len(cell_data)]
    /\ qresp' = NoQResp
    /\ qpc' = IF key = "global" THEN "first" ELSE "resolve_a"
    /\ UNCHANGED <<storeVars, ingestVars, aggVars>>

\* Lines 311-315: a sample of device_id = key exists: query that device.
ResolveByDevice ==
    /\ qpc = "resolve_a"
    /\ IF HasSampleOf(cell_data, qreq.key)
       THEN /\ qloc' = [qloc EXCEPT !.target = qreq.key, !.via = "a"]
            /\ qpc' = "first"
       ELSE /\ qloc' = qloc
            /\ qpc' = "resolve_b"
    /\ UNCHANGED <<storeVars, ingestVars, aggVars, qreq, qresp>>

\* Mutant of NamesDevice: any row found is taken to name a device.
NamesDeviceAnyRow(log, i) == i # 0

\* Line 319: `device_log and device_log.device_id`, for the row at index i
\* (0: no row).
NamesDevice(log, i) == i # 0 /\ log[i].device_id # ""

\* Lines 318-321: the presence row of address = key names a device.
ResolveByLog ==
    /\ qpc = "resolve_b"
    /\ LET i == FindLog(device_log, qreq.key)
       IN  IF NamesDevice(device_log, i)
           THEN /\ qloc' = [qloc EXCEPT !.target = device_log[i].device_id,
                                        !.via = "b"]
                /\ qpc' = "first"
           ELSE /\ qloc' = qloc
                /\ qpc' = "resolve_c"
    /\ UNCHANGED <<storeVars, ingestVars, aggVars, qreq, qresp>>

\* Lines 324-328: the device of the most recent sample, 404 on an empty store.
ResolveByRecent ==
    /\ qpc = "resolve_c"
    /\ IF cell_data # <<>>
       THEN /\ \E d \in MostRecentDevices(cell_data) :
                 qloc' = [qloc EXCEPT !.target = d, !.via = "c"]
            /\ qpc' = "first"
            /\ qresp' = qresp
       ELSE /\ qloc' = [qloc EXCEPT !.via = "none"]
            /\ qpc' = "done"
            /\ qresp' = QResp(404, "error", "No data available for this device",
                              NoStats)
    /\ UNCHANGED <<storeVars, ingestVars, aggVars, qreq>>

\* Lines 71, 102, 185, 246: the least timestamp of the store.
ReadFirst ==
    /\ qpc = "first"
    /\ qloc' = [qloc EXCEPT !.first = MinTs(cell_data)]
    /\ qpc' = "last"
    /\ UNCHANGED <<storeVars, ingestVars, aggVars, qreq, qresp>>

\* Lines 72-78, 103-109, 186-199, 247-259: the greatest timestamp, the
\* empty-store answer, the window and its check.
ReadLast ==
    /\ qpc = "last"
    /\ LET first == qloc.first
           last == MaxTs(cell_data)
           s == to_utc(qreq.start, first)
           e == to_utc(qreq.end, last)
       IN  /\ qloc' = IF first.null \/ ParseFails(qreq.start) \/ ParseFails(qreq.end)
                      THEN [qloc EXCEPT !.last = last]
                      ELSE [qloc EXCEPT !.last = last, !.s = s, !.e = e]
           /\ IF first.null
              THEN qresp' = EmptyStore /\ qpc' = "done"
              ELSE IF ParseFails(qreq.start) \/ ParseFails(qreq.end)
              THEN qresp' = Raised(qreq, "ValueError") /\ qpc' = "done"
              ELSE IF CompareRaises(e, s)
              THEN qresp' = Raised(qreq, "TypeError") /\ qpc' = "done"
              ELSE IF e.t < s.t
              THEN /\ qresp' = QResp(400, "error",
                                     "End date must be after start date", NoStats)
                   /\ qpc' = "done"
              ELSE qresp' = qresp /\ qpc' = "rows"
    /\ UNCHANGED <<storeVars, ingestVars, aggVars, qreq>>

\* Lines 80-99, 111-117, 201-236, 261-277: select the rows of the window and
\* answer.
ReadRows ==
    /\ qpc = "rows"
    /\ qresp' = IF IsGlobal(qreq)
                THEN avg_all_result(RowsInWindow(cell_data, qloc.s, qloc.e))
                ELSE stats_result(qreq, RowsOfDevice(cell_data, qloc.target,
                                                     qloc.s, qloc.e))
    /\ qpc' = "done"
    /\ UNCHANGED <<storeVars, ingestVars, aggVars, qreq, qloc>>

\* The response has been sent; the worker is free for the next query.
QueryReturn ==
    /\ qpc = "done"
    /\ qpc' = "idle"
    /\ qreq' = NoQuery
    /\ qloc' = NoLocals
    /\ qresp' = NoQResp
    /\ UNCHANGED <<storeVars, ingestVars, aggVars>>

---------------------------------------------------------------------------
(* The backend: concurrent ingestion workers and a query worker *)

Init ==
    /\ cell_data = <<>>
    /\ device_log = <<>>
    /\ writer = "none"
    /\ clock = 0
    /\ ipc = [w \in Workers |-> "idle"]
    /\ ireq = [w \in Workers |-> [body |-> Body("", 0), conn |-> [xff |-> <<>>, remote_addr |-> ""]]]
    /\ iloc = [w \in Workers |-> [ip |-> "", now |-> 0, sid |-> 0, dev |-> 0]]
    /\ iresp = [w \in Workers |-> NoResp]
    /\ nIngest = 0
    /\ qpc = "idle"
    /\ qreq = NoQuery
    /\ qloc = NoLocals
    /\ qresp = NoQResp
    /\ aggRows = <<>>
    /\ aggOut = NoStats

NextIngest ==
    \/ \E w \in Workers, p \in Posts : IngestReceive(w, p.body, p.conn)
    \/ \E w \in Workers : IngestLookup(w)
    \/ \E w \in Workers : IngestCommit(w)

NextQuery ==
    \/ \E k \in StatsKeys, x \in Windows : GetStatsBegin(k, x[1], x[2])
    \/ \E x \in Windows : AvgAllBegin(x[1], x[2])
    \/ \E k \in PageKeys, x \in Windows : DeviceStatsBegin(k, x[1], x[2])
    \/ ResolveByDevice
    \/ ResolveByLog
    \/ ResolveByRecent
    \/ ReadFirst
    \/ ReadLast
    \/ ReadRows
    \/ QueryReturn

Next == NextIngest \/ NextQuery

Spec == Init /\ [][Next]_vars

\* Ingestion alone: no query is sent.
SpecIngest == Init /\ [][NextIngest]_vars

---------------------------------------------------------------------------
(* The aggregator on its own: aggregate() applied to every selection of up *)
(* to MaxRows rows.  The payload depends neither on the order of the rows  *)
(* nor on which carriers they name, so carriers are numbered by first      *)
(* appearance and the rows of a carrier are kept together, the carriers in *)
(* order of non-increasing row count.                                      *)

CountOf(rows, k) == Len(SelectSeq(rows, LAMBDA r : r.operator = k))

\* A selected row of carrier k.
RowOf(k, id) == [NewSample(Body("a", 0), id) EXCEPT !.operator = k]

\* One more row of the carrier of the last row.
AggSelectSame ==
    /\ aggRows # <<>>
    /\ Len(aggRows) < MaxRows
    /\ LET k == aggRows[Len(aggRows)].operator
       IN  /\ k > 1 => CountOf(aggRows, k) < CountOf(aggRows, k - 1)
           /\ aggRows' = Append(aggRows, RowOf(k, Len(aggRows) + 1))
    /\ aggOut' = aggregate(aggRows')
    /\ UNCHANGED <<storeVars, ingestVars, queryVars>>

\* The first row of one more carrier.
AggSelectNew ==
    /\ Len(aggRows) < MaxRows
    /\ LET k == IF aggRows = <<>> THEN 1 ELSE aggRows[Len(aggRows)].operator + 1
       IN  aggRows' = Append(aggRows, RowOf(k, Len(aggRows) + 1))
    /\ aggOut' = aggregate(aggRows')
    /\ UNCHANGED <<storeVars, ingestVars, queryVars>>

NextAgg == AggSelectSame \/ AggSelectNew

SpecAgg == Init /\ [][NextAgg]_vars

---------------------------------------------------------------------------
(* Claims about the aggregator (checked under SpecAgg) *)

RECURSIVE SumShares(_, _)
SumShares(shares, keys) ==
    IF keys = {} THEN 0
    ELSE LET k == CHOOSE x \in keys : TRUE
         IN  shares[k][1] + SumShares(shares, keys \ {k})

\* The sum of the percentages of connectivity_per_operator, in hundredths.
OperatorShareSum ==
    SumShares(aggOut.connectivity_per_operator,
              DOMAIN aggOut.connectivity_per_operator)

\* Each percentage is within half a hundredth of count / total x 100 and
\* carries the "%" literal; there is one entry per carrier observed.
SharesAreRoundedCounts ==
    /\ DOMAIN aggOut.connectivity_per_operator = Operators(aggRows)
    /\ \A k \in Operators(aggRows) :
         LET p == aggOut.connectivity_per_operator[k]
         IN  /\ p[2] = "%"
             /\ 2 * Abs(p[1] * Len(aggRows) - CountOf(aggRows, k) * 10000)
                  <= Len(aggRows)

\* C8 as stated: for every non-empty selection the percentages of
\* connectivity_per_operator, one per carrier observed and each the rounded
\* share of that carrier, sum to 100.0 within +/-0.1.
C8_SharesSumTo100 ==
    aggRows # <<>> =>
        /\ SharesAreRoundedCounts
        /\ Abs(OperatorShareSum - 10000) <= 10

\* C8 amended: the same for every non-empty selection that names at most 20
\* distinct carriers.
C8_SharesSumTo100UpTo20 ==
    (aggRows # <<>> /\ Cardinality(Operators(aggRows)) <= 20) =>
        /\ SharesAreRoundedCounts
        /\ Abs(OperatorShareSum - 10000) <= 10

\* A selection of 20 carriers whose rounded shares do not sum to exactly 100.
C8_Witness ==
    /\ aggRows # <<>>
    /\ Cardinality(Operators(aggRows)) = 20
    /\ OperatorShareSum # 10000

---------------------------------------------------------------------------
(* Claims about ingestion (C1-C3 checked under SpecIngest, C9 under Spec) *)

\* The sample a worker's request describes is stored.
SampleStored(w) ==
    \E i \in 1..Len(cell_data) :
        /\ cell_data[i].id = iloc[w].sid
        /\ cell_data[i].device_id = ireq[w].body.device_id
        /\ cell_data[i].timestamp = ToUtc(ireq[w].body.timestamp.hour)

\* The address a request comes from, as section 6 defines the origin.
OriginOf(w) ==
    IF ireq[w].conn.xff = <<>> THEN ireq[w].conn.remote_addr
    ELSE ireq[w].conn.xff[1]

\* In `log` exactly one row belongs to w's origin and it carries w's device id
\* and w's time of contact.
PresenceOf(log, w) ==
    /\ \E i \in 1..Len(log) :
          /\ log[i].ip_address = OriginOf(w)
          /\ log[i].device_id = ireq[w].body.device_id
          /\ log[i].last_seen = iloc[w].now
    /\ \A i, j \in 1..Len(log) :
          (log[i].ip_address = OriginOf(w) /\ log[j].ip_address = OriginOf(w))
              => i = j

\* C1: ingestion is all-or-nothing per request.  Every step that changes the
\* sample table or the presence table is the commit of one request, which is
\* answered 201 and in which exactly one sample is appended and the presence
\* row of its origin is created or updated; a request answered 400 changes
\* neither table; a request answered 201 has its sample stored.
C1_AllOrNothing ==
    [][ /\ \A w \in Workers :
              (iresp'[w].code = 400 /\ iresp[w].code # 400)
                  => (cell_data' = cell_data /\ device_log' = device_log)
        /\ (cell_data' # cell_data \/ device_log' # device_log)
              => \E w \in Workers :
                    /\ iresp[w].code # 201 /\ iresp'[w].code = 201
                    /\ Len(cell_data') = Len(cell_data) + 1
                    /\ SubSeq(cell_data', 1, Len(cell_data)) = cell_data
                    /\ SampleStored(w)'
                    /\ PresenceOf(device_log', w)
                    /\ \A i \in 1..Len(device_log) :
                          device_log[i].ip_address # OriginOf(w)
                              => device_log'[i] = device_log[i]
        /\ \A w \in Workers :
              (iresp'[w].code = 201 /\ iresp[w].code # 201)
                  => (cell_data' # cell_data /\ SampleStored(w)'
                      /\ PresenceOf(device_log', w))
      ]_vars

\* Both outcomes have happened: one request stored (201), one rejected (400).
C1_Witness ==
    \E w1, w2 \in Workers :
        /\ ipc[w1] = "done" /\ iresp[w1].code = 201 /\ SampleStored(w1)
        /\ ipc[w2] = "done" /\ iresp[w2].code = 400
        /\ Len(cell_data) = 1 /\ Len(device_log) = 1

UniquePerOrigin ==
    \A i, j \in 1..Len(device_log) :
        device_log[i].ip_address = device_log[j].ip_address => i = j

\* C2: the presence table holds at most one row per origin_key, and a repeat
\* contact (a commit from an origin that has a row) adds no row and leaves
\* that row with the request's time and device id.
C2_OneRowPerOrigin ==
    /\ []UniquePerOrigin
    /\ [][ \A w \in Workers :
              (iresp'[w].code = 201 /\ iresp[w].code # 201
               /\ \E i \in 1..Len(device_log) :
                     device_log[i].ip_address = OriginOf(w))
                  => /\ Len(device_log') = Len(device_log)
                     /\ \A i \in 1..Len(device_log) :
                           IF device_log[i].ip_address = OriginOf(w)
                           THEN /\ device_log'[i].id = device_log[i].id
                                /\ device_log'[i].ip_address = OriginOf(w)
                                /\ device_log'[i].last_seen = iloc[w].now
                                /\ device_log'[i].device_id = ireq[w].body.device_id
                           ELSE device_log'[i] = device_log[i]
         ]_vars

\* A repeat contact has changed the device id of the single row of its origin.
C2_Witness ==
    \E w \in Workers :
        /\ ipc[w] = "done" /\ iresp[w].code = 201 /\ iloc[w].dev # 0
        /\ Len(cell_data) = 2 /\ Len(device_log) = 1
        /\ device_log[1].device_id = ireq[w].body.device_id
        /\ cell_data[1].device_id # ireq[w].body.device_id

\* The validation C3 names: required fields present, signal_power an integer,
\* timestamp in the fixed format.
StatedValid(b) ==
    /\ b.absent \cap {"device_id", "operator", "signal_power", "network_type",
                      "cell_id", "timestamp"} = {}
    /\ b.signal_power.num
    /\ b.timestamp.ok

\* C3: every request whose body passes validation (the fields above, and the
\* optional snr, when sent, a number as line 142 requires) is answered 201
\* with its sample stored, also under concurrent ingestion from the same
\* origin.
C3_ValidBodyAccepted ==
    \A w \in Workers :
        (ipc[w] = "done" /\ StatedValid(ireq[w].body)
         /\ ("snr" \in ireq[w].body.absent \/ ireq[w].body.snr.num))
            => (iresp[w].code = 201 /\ SampleStored(w))

\* C9: every presence row's associated device id is the device_id of a stored
\* sample; so a presence row exists only if the store is non-empty, and step
\* (b) of the /device-stats chain resolves only to a device that has samples.
C9_LogDeviceHasSample ==
    /\ \A i \in 1..Len(device_log) :
          \E j \in 1..Len(cell_data) :
              cell_data[j].device_id = device_log[i].device_id
    /\ device_log # <<>> => cell_data # <<>>
    /\ qloc.via = "b" =>
          \E j \in 1..Len(cell_data) : cell_data[j].device_id = qloc.target

\* Step (b) has resolved a key to the device of its presence row.
C9_Witness ==
    /\ qpc = "done" /\ qloc.via = "b" /\ qresp.code = 200
    /\ qloc.target # qreq.key

---------------------------------------------------------------------------
(* Claims about the queries (checked under Spec) *)

\* No ingestion has committed since the query was received.
StoreAsReceived == Len(cell_data) = qloc.len0

KeyHasSample == \E i \in 1..Len(cell_data) : cell_data[i].device_id = qreq.key

\* The non-empty associated device ids of the presence rows of origin = key.
KeyLogDevices ==
    {device_log[i].device_id :
        i \in {j \in 1..Len(device_log) :
                  /\ device_log[j].ip_address = qreq.key
                  /\ device_log[j].device_id # ""}}

\* The device ids of the samples of greatest timestamp in the whole store.
LatestDevices ==
    {cell_data[i].device_id :
        i \in {j \in 1..Len(cell_data) :
                  \A k \in 1..Len(cell_data) :
                      cell_data[k].timestamp <= cell_data[j].timestamp}}

\* The request is a /device-stats with a non-global key.
ByKey == qreq.kind = "device_stats" /\ qreq.key # "global"

\* The device queried is (a) the key if a sample has device_id = key, (b)
\* otherwise the non-empty associated id of the presence row of origin = key,
\* (c) otherwise the device of a sample of greatest timestamp, and the
\* resolution itself fails exactly when none of these yields an identifier;
\* all judged against the store the request was received in, while no
\* ingestion has committed since.
ChainOnStoreReceived ==
    (ByKey /\ qloc.via # "" /\ StoreAsReceived)
        => /\ KeyHasSample => (qloc.via = "a" /\ qloc.target = qreq.key)
           /\ (~KeyHasSample /\ KeyLogDevices # {})
                 => (qloc.via = "b" /\ qloc.target \in KeyLogDevices)
           /\ (~KeyHasSample /\ KeyLogDevices = {} /\ LatestDevices # {})
                 => (qloc.via = "c" /\ qloc.target \in LatestDevices)
           /\ (~KeyHasSample /\ KeyLogDevices = {} /\ LatestDevices = {})
                 <=> (qloc.via = "none" /\ qresp.code = 404)

\* No sample of the device queried has its timestamp inside the window.
TargetWindowIsEmpty ==
    ~\E i \in 1..Len(cell_data) :
        /\ cell_data[i].device_id = qloc.target
        /\ qloc.s.t <= cell_data[i].timestamp
        /\ cell_data[i].timestamp <= qloc.e.t

\* C4 as stated: the chain (a), (b), (c) chooses the device queried, and the
\* request is answered 404 only if none of (a)-(c) yields an identifier.
C4_NoDataOnlyIfUnresolved ==
    /\ ChainOnStoreReceived
    /\ (ByKey /\ qpc = "done" /\ StoreAsReceived /\ qresp.code = 404)
          => (~KeyHasSample /\ KeyLogDevices = {} /\ LatestDevices = {})

\* C4 amended: the chain (a), (b), (c) chooses the device queried, each step
\* deciding on the store as its own lookup finds it and a later step looked
\* up only after the earlier one found nothing; the resolution fails with
\* 404 only if none of (a)-(c) yields an identifier, which is when the store
\* is empty; the only other 404 of the request is that of a resolved device
\* with no sample inside the window.
C4_FallbackChain ==
    /\ []ChainOnStoreReceived
    /\ [][ ByKey =>
             /\ (qpc = "resolve_a" /\ qpc' # qpc)
                   => IF KeyHasSample
                      THEN /\ qloc'.via = "a" /\ qloc'.target = qreq.key
                           /\ qpc' = "first"
                      ELSE qloc'.via = "" /\ qpc' = "resolve_b"
             /\ (qpc = "resolve_b" /\ qpc' # qpc)
                   => IF KeyLogDevices # {}
                      THEN /\ qloc'.via = "b" /\ qloc'.target \in KeyLogDevices
                           /\ qpc' = "first"
                      ELSE qloc'.via = "" /\ qpc' = "resolve_c"
             /\ (qpc = "resolve_c" /\ qpc' # qpc)
                   => IF LatestDevices # {}
                      THEN /\ qloc'.via = "c" /\ qloc'.target \in LatestDevices
                           /\ qpc' = "first"
                      ELSE /\ qloc'.via = "none" /\ qpc' = "done"
                           /\ qresp'.code = 404
             /\ (qloc'.via # qloc.via /\ qloc'.via # "")
                   => \/ qloc'.via = "a" /\ qpc = "resolve_a"
                      \/ qloc'.via = "b" /\ qpc = "resolve_b"
                      \/ qloc'.via \in {"c", "none"} /\ qpc = "resolve_c"
             /\ (qpc' = "resolve_b" /\ qpc # qpc') => qpc = "resolve_a"
             /\ (qpc' = "resolve_c" /\ qpc # qpc') => qpc = "resolve_b"
             /\ (qresp.code # 404 /\ qresp'.code = 404)
                   => \/ /\ qpc = "resolve_c" /\ qloc'.via = "none"
                         /\ cell_data = <<>>
                      \/ /\ qpc = "rows" /\ qloc.via \in {"a", "b", "c"}
                         /\ TargetWindowIsEmpty
          ]_vars

\* Step (b) was taken although the store holds a later sample of another
\* device, and the key is no device id.
C4_Witness ==
    /\ qreq.kind = "device_stats" /\ StoreAsReceived
    /\ qloc.via = "b" /\ qloc.target \notin LatestDevices
    /\ qpc = "done"

\* C5: a query whose start or end text is malformed always ends in the
\* client-input error (400), whatever the store holds.
C5_ParseErrorIs400 ==
    (qpc = "done" /\ (ParseFails(qreq.start) \/ ParseFails(qreq.end)))
        => qresp.code = 400

\* The rows of the store inside the window the global query selects over.
WindowIsEmpty ==
    \A i \in 1..Len(cell_data) :
        ~(qloc.s.t <= cell_data[i].timestamp /\ cell_data[i].timestamp <= qloc.e.t)

\* C6 as stated: when the global average query selects over a non-empty store
\* and no sample lies in the resolved window, it fails with 404.
C6_EmptyWindowIs404 ==
    [][ (qpc = "rows" /\ qpc' = "done" /\ IsGlobal(qreq) /\ WindowIsEmpty)
            => qresp'.code = 404 ]_vars

\* C6 amended: on an empty store the global average query fails with 404, on
\* end before start (both given and well formed) with 400, as the per-device
\* query does; when no sample lies in the resolved window of a non-empty
\* store it answers 200 with both averages 0.
C6_EmptyWindowIsZero ==
    /\ [](  (qpc = "done" /\ IsGlobal(qreq))
            => /\ qloc.first.null => qresp.code = 404
               /\ (~qloc.first.null /\ qreq.start.given /\ qreq.start.ok
                   /\ qreq.end.given /\ qreq.end.ok)
                     => IF ToUtc(qreq.end.hour) < ToUtc(qreq.start.hour)
                        THEN qresp.code = 400
                        ELSE qresp.code = 200 )
    /\ [][ (qpc = "rows" /\ qpc' = "done" /\ IsGlobal(qreq) /\ WindowIsEmpty)
              => /\ qresp'.code = 200
                 /\ qresp'.stats.avg_signal_all_devices = 0
                 /\ qresp'.stats.avg_snr_all_devices = 0 ]_vars

\* A global query over a non-empty store was answered 200 with zero averages.
C6_Witness ==
    /\ qpc = "done" /\ IsGlobal(qreq) /\ qresp.code = 200
    /\ ~qloc.first.null /\ WindowIsEmpty /\ StoreAsReceived
    /\ qresp.stats.avg_signal_all_devices = 0

\* C7: when neither start nor end is supplied, the window the samples are
\* selected in is [minimum timestamp, maximum timestamp] of the store at the
\* moment of the selection.
C7_DefaultWindowIsFullRange ==
    [][ (qpc = "rows" /\ qpc' = "done" /\ ~qreq.start.given /\ ~qreq.end.given)
            => /\ \A i \in 1..Len(cell_data) :
                     /\ qloc.s.t <= cell_data[i].timestamp
                     /\ cell_data[i].timestamp <= qloc.e.t
               /\ \E i \in 1..Len(cell_data) : cell_data[i].timestamp = qloc.s.t
               /\ \E i \in 1..Len(cell_data) : cell_data[i].timestamp = qloc.e.t
      ]_vars

\* C10: /get-stats with neither start nor end, for a device_id that had a
\* committed sample when the request was received, is answered 200 with the
\* statistics payload, whatever ingestion interleaves with its reads.
C10_DefaultWindowFindsDevice ==
    (qpc = "done" /\ qreq.kind = "get_stats" /\ qreq.key # ""
     /\ ~qreq.start.given /\ ~qreq.end.given
     /\ \E i \in 1..qloc.len0 : cell_data[i].device_id = qreq.key)
        => /\ qresp.code = 200
           /\ DOMAIN qresp.stats.connectivity_per_operator # {}

\* Such a request was answered while the store grew beyond the window it read.
C10_Witness ==
    /\ qpc = "done" /\ qreq.kind = "get_stats" /\ qreq.key # ""
    /\ ~qreq.start.given /\ ~qreq.end.given
    /\ \E i \in 1..qloc.len0 : cell_data[i].device_id = qreq.key
    /\ Len(cell_data) > qloc.len0
    /\ \E i \in 1..Len(cell_data) : cell_data[i].timestamp < qloc.s.t
    /\ qresp.code = 200

=============================================================================
